---- MODULE Spec2Model ----
(***************************************************************************)
(* A model of iggy-mcp-server (src/src/index.ts): an MCP server over stdio *)
(* with four request handlers (list-resources, read-resource, list-tools,  *)
(* call-tool).  Two tools (rag_query, upload_documents) suspend on an      *)
(* outbound HTTP POST; every other handler runs to completion in one step. *)
(*                                                                         *)
(* Strings are TLA+ strings (sequences of characters), so templating and   *)
(* parsing are computed character by character.  A JavaScript value is a   *)
(* record [t |-> <type tag>, v |-> <payload>]; an object's payload is the  *)
(* ordered list of its own properties <<key, value>>.                      *)
(***************************************************************************)
EXTENDS Integers, Sequences, FiniteSets, Bags, TLC

(***************************************************************************)
(* JavaScript values                                                       *)
(***************************************************************************)
Undefined == [t |-> "undefined", v |-> ""]
Null == [t |-> "null", v |-> ""]
NaN == [t |-> "nan", v |-> ""]
Str(s) == [t |-> "string", v |-> s]
Num(n) == [t |-> "number", v |-> n]
Arr(items) == [t |-> "array", v |-> items]
Obj(props) == [t |-> "object", v |-> props]
Fn(name) == [t |-> "function", v |-> name]

\* Own-property lookup in an ordered property list.
RECURSIVE OwnProp(_, _)
OwnProp(props, k) ==
  IF props = <<>> THEN Undefined
  ELSE IF Head(props)[1] = k THEN Head(props)[2]
  ELSE OwnProp(Tail(props), k)

OwnKeys(props) == {props[i][1] : i \in 1..Len(props)}

\* Properties every plain object inherits from Object.prototype.
ObjectPrototypeFunctions ==
  {"constructor", "toString", "toLocaleString", "valueOf", "hasOwnProperty",
   "isPrototypeOf", "propertyIsEnumerable"}

\* obj[k] on a plain object: own property first, then the prototype chain.
GetProp(props, k) ==
  IF k \in OwnKeys(props) THEN OwnProp(props, k)
  ELSE IF k \in ObjectPrototypeFunctions THEN Fn(k)
  ELSE IF k = "__proto__" THEN Obj(<<>>)
  ELSE Undefined

\* ToBoolean.
Truthy(x) ==
  CASE x.t = "undefined" -> FALSE
    [] x.t = "null" -> FALSE
    [] x.t = "nan" -> FALSE
    [] x.t = "string" -> x.v # ""
    [] x.t = "number" -> x.v # 0
    [] OTHER -> TRUE

RECURSIVE JoinStrings(_, _)
JoinStrings(items, sep) ==
  IF items = <<>> THEN ""
  ELSE IF Len(items) = 1 THEN Head(items)
  ELSE Head(items) \o sep \o JoinStrings(Tail(items), sep)

\* String(x), also the conversion a template literal applies.
RECURSIVE String(_)
String(x) ==
  CASE x.t = "undefined" -> "undefined"
    [] x.t = "null" -> "null"
    [] x.t = "nan" -> "NaN"
    [] x.t = "string" -> x.v
    [] x.t = "number" -> ToString(x.v)
    [] x.t = "array" ->
         JoinStrings([i \in 1..Len(x.v) |->
                        IF x.v[i].t \in {"undefined", "null"} THEN ""
                        ELSE String(x.v[i])], ",")
    [] x.t = "object" -> "[object Object]"
    [] OTHER -> "function " \o x.v \o "() { [native code] }"

Digits == <<"0", "1", "2", "3", "4", "5", "6", "7", "8", "9">>
DigitValue(c) == (CHOOSE i \in 1..10 : Digits[i] = c) - 1
IsDigit(c) == \E i \in 1..10 : Digits[i] = c

RECURSIVE DecimalValue(_, _)
DecimalValue(s, acc) ==
  IF s = "" THEN acc
  ELSE DecimalValue(Tail(s), 10 * acc + DigitValue(Head(s)))

\* Number(x) for the values an argument bag can hold here (non-negative
\* decimal literals; anything else that is not a number converts to NaN).
Number(x) ==
  CASE x.t = "number" -> x
    [] x.t = "nan" -> NaN
    [] x.t = "null" -> Num(0)
    [] x.t = "string" ->
         IF x.v = "" THEN Num(0)
         ELSE IF \A i \in 1..Len(x.v) : IsDigit(SubSeq(x.v, i, i))
              THEN Num(DecimalValue(x.v, 0))
              ELSE NaN
    [] OTHER -> NaN

(***************************************************************************)
(* JSON.stringify(value, null, indent) and JSON.parse                      *)
(***************************************************************************)
RECURSIVE Spaces(_)
Spaces(n) == IF n = 0 THEN "" ELSE " " \o Spaces(n - 1)

RECURSIVE Quote(_)
Quote(s) ==
  IF s = "" THEN ""
  ELSE (CASE Head(s) = "\"" -> "\\\""
          [] Head(s) = "\\" -> "\\\\"
          [] Head(s) = "\n" -> "\\n"
          [] OTHER -> Head(s)) \o Quote(Tail(s))

\* A value JSON.stringify leaves out of an object (and, at top level, turns
\* into the result undefined).
Unserializable(x) == x.t \in {"undefined", "function"}

RECURSIVE KeepSerializable(_)
KeepSerializable(props) ==
  IF props = <<>> THEN <<>>
  ELSE IF Unserializable(Head(props)[2]) THEN KeepSerializable(Tail(props))
  ELSE <<Head(props)>> \o KeepSerializable(Tail(props))

RECURSIVE JSONText(_, _, _)
JSONText(x, indent, depth) ==
  LET open == IF indent = 0 THEN "" ELSE "\n" \o Spaces(indent * (depth + 1))
      close == IF indent = 0 THEN "" ELSE "\n" \o Spaces(indent * depth)
      colon == IF indent = 0 THEN ":" ELSE ": "
  IN CASE x.t = "string" -> "\"" \o Quote(x.v) \o "\""
       [] x.t = "number" -> ToString(x.v)
       [] x.t \in {"null", "nan", "undefined", "function"} -> "null"
       [] x.t = "array" ->
            IF x.v = <<>> THEN "[]"
            ELSE "[" \o open
                 \o JoinStrings([i \in 1..Len(x.v) |->
                                   JSONText(x.v[i], indent, depth + 1)],
                                "," \o open)
                 \o close \o "]"
       [] OTHER ->
            LET props == KeepSerializable(x.v)
            IN IF props = <<>> THEN "{}"
               ELSE "{" \o open
                    \o JoinStrings([i \in 1..Len(props) |->
                                      "\"" \o Quote(props[i][1]) \o "\"" \o colon
                                      \o JSONText(props[i][2], indent, depth + 1)],
                                   "," \o open)
                    \o close \o "}"

JSONStringify(x, indent) ==
  IF Unserializable(x) THEN Undefined ELSE Str(JSONText(x, indent, 0))

ParseFail == [ok |-> FALSE, val |-> Undefined, rest |-> ""]
Parsed(val, rest) == [ok |-> TRUE, val |-> val, rest |-> rest]

RECURSIVE SkipWs(_)
SkipWs(s) ==
  IF s # "" /\ Head(s) \in {" ", "\n", "\t"} THEN SkipWs(Tail(s)) ELSE s

StartsWith(s, prefix) ==
  Len(s) >= Len(prefix) /\ SubSeq(s, 1, Len(prefix)) = prefix

RECURSIVE ParseStringBody(_, _)
ParseStringBody(s, acc) ==
  IF s = "" THEN ParseFail
  ELSE IF Head(s) = "\"" THEN Parsed(Str(acc), Tail(s))
  ELSE IF Head(s) = "\\" THEN
         IF Len(s) < 2 THEN ParseFail
         ELSE LET c == SubSeq(s, 2, 2)
              IN IF c \in {"\"", "\\", "/"}
                 THEN ParseStringBody(SubSeq(s, 3, Len(s)), acc \o c)
                 ELSE IF c = "n"
                 THEN ParseStringBody(SubSeq(s, 3, Len(s)), acc \o "\n")
                 ELSE ParseFail
  ELSE ParseStringBody(Tail(s), acc \o Head(s))

RECURSIVE ParseDigits(_, _)
ParseDigits(s, acc) ==
  IF s # "" /\ IsDigit(Head(s))
  THEN ParseDigits(Tail(s), 10 * acc + DigitValue(Head(s)))
  ELSE Parsed(Num(acc), s)

RECURSIVE ParseValue(_), ParseMembers(_, _), ParseElements(_, _)
ParseValue(s0) ==
  LET s == SkipWs(s0)
  IN IF s = "" THEN ParseFail
     ELSE IF Head(s) = "\"" THEN ParseStringBody(Tail(s), "")
     ELSE IF IsDigit(Head(s)) THEN ParseDigits(s, 0)
     ELSE IF StartsWith(s, "null") THEN Parsed(Null, SubSeq(s, 5, Len(s)))
     ELSE IF Head(s) = "{" THEN
            LET s1 == SkipWs(Tail(s))
            IN IF s1 # "" /\ Head(s1) = "}" THEN Parsed(Obj(<<>>), Tail(s1))
               ELSE ParseMembers(s1, <<>>)
     ELSE IF Head(s) = "[" THEN
            LET s1 == SkipWs(Tail(s))
            IN IF s1 # "" /\ Head(s1) = "]" THEN Parsed(Arr(<<>>), Tail(s1))
               ELSE ParseElements(s1, <<>>)
     ELSE ParseFail

ParseMembers(s0, acc) ==
  LET s == SkipWs(s0)
  IN IF s = "" \/ Head(s) # "\"" THEN ParseFail
     ELSE LET k == ParseStringBody(Tail(s), "")
              s1 == SkipWs(k.rest)
          IN IF ~k.ok \/ s1 = "" \/ Head(s1) # ":" THEN ParseFail
             ELSE LET x == ParseValue(Tail(s1))
                      s2 == SkipWs(x.rest)
                      got == acc \o <<<<k.val.v, x.val>>>>
                  IN IF ~x.ok \/ s2 = "" THEN ParseFail
                     ELSE IF Head(s2) = "," THEN ParseMembers(Tail(s2), got)
                     ELSE IF Head(s2) = "}" THEN Parsed(Obj(got), Tail(s2))
                     ELSE ParseFail

ParseElements(s0, acc) ==
  LET x == ParseValue(s0)
      s1 == SkipWs(x.rest)
      got == acc \o <<x.val>>
  IN IF ~x.ok \/ s1 = "" THEN ParseFail
     ELSE IF Head(s1) = "," THEN ParseElements(Tail(s1), got)
     ELSE IF Head(s1) = "]" THEN Parsed(Arr(got), Tail(s1))
     ELSE ParseFail

\* JSON.parse(text): the value, or a failure (SyntaxError).
JSONParse(text) ==
  LET r == ParseValue(text)
  IN IF r.ok /\ SkipWs(r.rest) = "" THEN r ELSE ParseFail

(***************************************************************************)
(* new URL(uri).pathname for a URI whose scheme is not a special one       *)
(* (http, https, ws, wss, ftp, file), over URIs without dot segments,      *)
(* surrounding whitespace or characters the parser would percent-encode.   *)
(***************************************************************************)
Letters ==
  {"a", "b", "c", "d", "e", "f", "g", "h", "i", "j", "k", "l", "m", "n", "o",
   "p", "q", "r", "s", "t", "u", "v", "w", "x", "y", "z",
   "A", "B", "C", "D", "E", "F", "G", "H", "I", "J", "K", "L", "M", "N", "O",
   "P", "Q", "R", "S", "T", "U", "V", "W", "X", "Y", "Z"}

\* Index of the first character of s that is in cs, or Len(s) + 1.
FirstOf(s, cs) ==
  LET hits == {i \in 1..Len(s) : SubSeq(s, i, i) \in cs}
  IN IF hits = {} THEN Len(s) + 1
     ELSE CHOOSE i \in hits : \A j \in hits : i <= j

URLPathname(uri) ==
  LET colon == FirstOf(uri, {":"})
      scheme == SubSeq(uri, 1, colon - 1)
      validScheme ==
        /\ colon <= Len(uri)
        /\ scheme # ""
        /\ Head(scheme) \in Letters
        /\ \A i \in 1..Len(scheme) :
             \/ SubSeq(scheme, i, i) \in Letters \cup {"+", "-", "."}
             \/ IsDigit(SubSeq(scheme, i, i))
      afterScheme == SubSeq(uri, colon + 1, Len(uri))
      \* the query and the fragment are no part of the path
      hier == SubSeq(afterScheme, 1, FirstOf(afterScheme, {"?", "#"}) - 1)
      afterSlashes == SubSeq(hier, 3, Len(hier))
  IN IF ~validScheme THEN [ok |-> FALSE, pathname |-> ""]
     ELSE IF StartsWith(hier, "//")
     THEN \* an authority, then the path from the next slash on
          [ok |-> TRUE,
           pathname |-> SubSeq(afterSlashes, FirstOf(afterSlashes, {"/"}),
                               Len(afterSlashes))]
     ELSE [ok |-> TRUE, pathname |-> hier]

\* A variant that leaves the leading slash of the path in place.
StripNothing(path) == path

\* pathname.replace(/^\//, ''): drops one leading slash.
StripLeadingSlash(path) ==
  IF StartsWith(path, "/") THEN Tail(path) ELSE path

(***************************************************************************)
(* Errors and handler outcomes                                             *)
(***************************************************************************)
Error(message) == [name |-> "Error", message |-> message]
TypeError(message) == [name |-> "TypeError", message |-> message]
SyntaxError(message) == [name |-> "SyntaxError", message |-> message]

\* What one run of a handler, up to its return, throw or next await, leaves:
\* st is "done" (settled), "fetch" (awaiting fetch) or "json" (awaiting
\* response.json()); result and error hold at most one element each.
Returns(result, logs) ==
  [st |-> "done", result |-> <<result>>, error |-> <<>>, posts |-> <<>>,
   logs |-> logs]
Throws(error, logs) ==
  [st |-> "done", result |-> <<>>, error |-> <<error>>, posts |-> <<>>,
   logs |-> logs]
Awaits(post) ==
  [st |-> "fetch", result |-> <<>>, error |-> <<>>, posts |-> <<post>>,
   logs |-> <<>>]

ConsoleLog(text) == [stream |-> "stdout", text |-> text]
ConsoleError(text) == [stream |-> "stderr", text |-> text]

TextBlock(text) == [type |-> "text", text |-> text]

(***************************************************************************)
(* The task store and the resource handlers                                *)
(***************************************************************************)
Task(id, title, description) ==
  Obj(<< <<"id", Str(id)>>, <<"title", Str(title)>>,
         <<"description", Str(description)>> >>)

InitialTasks ==
  << <<"1", Task("1", "First Task", "This is task 1")>>,
     <<"2", Task("2", "Second Task", "This is task 2")>> >>

TaskUri(id) == "task:///" \o id

\* Object.values(tasks).map(...)
ListResources(store) ==
  [resources |->
     [i \in 1..Len(store) |->
        LET task == store[i][2].v
        IN [uri |-> TaskUri(String(OwnProp(task, "id"))),
            mimeType |-> "application/json",
            name |-> String(OwnProp(task, "title")),
            description |-> "Task: " \o String(OwnProp(task, "title"))]]]

ReadResource(store, uri) ==
  LET url == URLPathname(uri)
      id == StripLeadingSlash(url.pathname)
      task == GetProp(store, id)
  IN IF ~url.ok THEN Throws(TypeError("Invalid URL"), <<>>)
     ELSE IF ~Truthy(task)
     THEN Throws(Error("Task " \o id \o " not found"), <<>>)
     ELSE Returns([contents |->
                     <<[uri |-> uri, mimeType |-> "application/json",
                        text |-> JSONStringify(task, 2)]>>], <<>>)

(***************************************************************************)
(* The tool listing                                                        *)
(***************************************************************************)
Tool(name, description, properties, required) ==
  [name |-> name, description |-> description,
   inputSchema |-> [type |-> "object", properties |-> properties,
                    required |-> required]]

ListTools ==
  [tools |->
     << Tool("create_note", "Create a new note",
             <<"title", "content">>, <<"title", "content">>),
        Tool("memory_write", "Write memory chunks to Halcyon",
             <<"source", "task_id", "payload">>,
             <<"source", "task_id", "payload">>),
        Tool("list_tools", "List available tools", <<>>, <<>>),
        Tool("rag_query", "Query the RAG system",
             <<"collection_name", "query", "limit", "embedding_model",
               "timeout">>,
             <<"collection_name", "query">>),
        Tool("upload_documents", "Upload documents to the RAG system",
             <<"collection_name", "texts", "metadata", "source",
               "embedding_model">>,
             <<"collection_name", "texts">>) >>]

(***************************************************************************)
(* The call-tool handler                                                   *)
(***************************************************************************)
\* An argument bag: request.params.arguments is an object or is not given.
NoArguments == [given |-> FALSE, props |-> <<>>]
Arguments(props) == [given |-> TRUE, props |-> props]

\* request.params.arguments?.k
Arg(args, k) == IF args.given THEN GetProp(args.props, k) ELSE Undefined

\* x.k where x is neither null nor undefined.
Member(x, k) == IF x.t = "object" THEN GetProp(x.v, k) ELSE Undefined

\* The case label the switch statement selects for a tool name.
SwitchCases ==
  {"create_note", "list_tools", "memory_write", "rag_query",
   "upload_documents"}

\* A variant that selects a case when the name merely begins with its label.
RouteByPrefix(name) ==
  IF \E c \in SwitchCases : StartsWith(name, c)
  THEN CHOOSE c \in SwitchCases : StartsWith(name, c)
  ELSE "default"

Route(name) == IF name \in SwitchCases THEN name ELSE "default"

\* A variant in which create_note stores the note as a task under its title.
SaveNoteInStore(store, title, content) ==
  IF title \in OwnKeys(store) THEN store
  ELSE store \o << <<title, Obj(<< <<"id", Str(title)>>,
                                   <<"title", Str(title)>>,
                                   <<"description", Str(content)>> >>)>> >>

\* What the create_note case keeps of a note: nothing.
SaveNote(store, title, content) == store

CreateNote(args) ==
  LET title == String(Arg(args, "title"))
      content == String(Arg(args, "content"))
  IN IF title = "" \/ content = ""
     THEN Throws(Error("Title and content are required"), <<>>)
     ELSE Returns([content |-> <<TextBlock("Created note: " \o title)>>],
                  <<ConsoleLog("Created note: " \o title)>>)

\* A variant of the list_tools reply that was not updated when
\* upload_documents was added.
ListToolsToolNamesStale ==
  <<"create_note", "memory_write", "list_tools", "rag_query">>

ListToolsToolNames ==
  <<"create_note", "memory_write", "list_tools", "rag_query",
    "upload_documents">>

ListToolsTool ==
  Returns([content |->
             <<TextBlock(
                 JSONStringify(
                   Arr([i \in 1..Len(ListToolsToolNames) |->
                          Str(ListToolsToolNames[i])]), 2).v)>>],
          <<>>)

MemoryWrite(args) ==
  LET source == String(Arg(args, "source"))
      task_id == String(Arg(args, "task_id"))
      payload == Arg(args, "payload")
      required == "Source, task_id, and payload are required"
  IN IF source = "" \/ task_id = "" \/ ~Truthy(payload)
     THEN \* thrown inside the try block, caught, logged and rethrown
          Throws(Error("Failed to process memory_write: " \o required),
                 <<ConsoleError("Error processing memory_write: Error: "
                                \o required)>>)
     ELSE Returns(
            [content |->
               <<TextBlock("Processed memory chunk from " \o source
                           \o " for task " \o task_id)>>],
            <<ConsoleLog("Received memory chunk from " \o source
                         \o " for task " \o task_id \o ": "
                         \o String(Member(payload, "text")))>>)

Post(url, body) ==
  [url |-> url, method |-> "POST",
   headers |-> << <<"Content-Type", "application/json">> >>,
   body |-> body]

\* x ? Number(x) : undefined
NumberIfTruthy(x) == IF Truthy(x) THEN Number(x) ELSE Undefined

RagQueryBody(args) ==
  Obj(<< <<"collection_name", Str(String(Arg(args, "collection_name")))>>,
         <<"query", Str(String(Arg(args, "query")))>>,
         <<"limit", NumberIfTruthy(Arg(args, "limit"))>>,
         <<"embedding_model", Str(String(Arg(args, "embedding_model")))>>,
         <<"timeout", NumberIfTruthy(Arg(args, "timeout"))>> >>)

RagQuery(args) ==
  Awaits(Post("http://localhost:8000/rag/query",
              JSONStringify(RagQueryBody(args), 0).v))

UploadDocumentsBody(args) ==
  Obj(<< <<"collection_name", Str(String(Arg(args, "collection_name")))>>,
         <<"texts", Arg(args, "texts")>>,
         <<"metadata", Arg(args, "metadata")>>,
         <<"source", Str(String(Arg(args, "source")))>>,
         <<"embedding_model", Str(String(Arg(args, "embedding_model")))>> >>)

UploadDocuments(args) ==
  Awaits(Post("http://localhost:8000/rag/documents",
              JSONStringify(UploadDocumentsBody(args), 0).v))

\* The handler up to its first return, throw or await.
CallTool(name, args) ==
  LET case == Route(name)
  IN CASE case = "create_note" -> CreateNote(args)
       [] case = "list_tools" -> ListToolsTool
       [] case = "memory_write" -> MemoryWrite(args)
       [] case = "rag_query" -> RagQuery(args)
       [] case = "upload_documents" -> UploadDocuments(args)
       [] OTHER -> Throws(Error("Unknown tool"), <<>>)

FailurePrefix(name) ==
  IF Route(name) = "rag_query" THEN "RAG query failed: "
  ELSE "Document upload failed: "

\* A variant that takes only server errors (5xx) for failures.
ResponseOkBelow500(response) == response.status < 500

\* response.ok: the status is in the range 200-299.
ResponseOk(response) == response.status \in 200..299

\* A variant in which the response is kept in a variable shared by all
\* invocations: the continuation reads the response another invocation in
\* flight received last, when there is one.
AwaitedResponseShared(others, response) ==
  LET seen == {o \in BagToSet(others) :
                 o.upstream # <<>> /\ o.upstream[1].type = "response"}
  IN IF seen = {} THEN response
     ELSE (CHOOSE o \in seen : TRUE).upstream[1].response

\* The response the continuation of an invocation reads: the one its own
\* fetch resolved with (a const local to the case block), whatever else is
\* in flight.
AwaitedResponse(others, response) == response

\* The continuation after `await fetch(...)` resolves with a response.
AfterFetch(name, response) ==
  IF ~ResponseOk(response)
  THEN [st |-> "done", result |-> <<>>,
        error |-> <<Error(FailurePrefix(name) \o response.statusText)>>]
  ELSE [st |-> "json", result |-> <<>>, error |-> <<>>]

\* The continuation after `await response.json()` resolves or rejects.
AfterJson(text) ==
  LET parsed == JSONParse(text)
  IN IF ~parsed.ok
     THEN [st |-> "done", result |-> <<>>,
           error |-> <<SyntaxError("Unexpected token in JSON")>>]
     ELSE [st |-> "done",
           result |-> <<[content |->
                           <<TextBlock(JSONStringify(parsed.val, 2).v)>>]>>,
           error |-> <<>>]

\* An await whose promise rejects rethrows the rejection out of the handler.
AfterRejection(reason) ==
  [st |-> "done", result |-> <<>>, error |-> <<reason>>]

(***************************************************************************)
(* Requests and upstream answers the model draws from                      *)
(***************************************************************************)
\* The number of requests that can be in flight (received, not yet answered)
\* at the same time.
MaxInFlight == 2

ReadUris ==
  {"task:///1", "task:///2", "task:///3", "task:///", "task:///constructor",
   "task:///1?x=1", "not a uri"}

UnknownNames == {"delete_everything", "rag_query_v2", "constructor"}

CreateNoteBags ==
  {NoArguments,
   Arguments(<< <<"title", Str("A")>> >>),
   Arguments(<< <<"content", Str("B")>> >>),
   Arguments(<< <<"title", Str("A")>>, <<"content", Str("B")>> >>),
   Arguments(<< <<"title", Str("")>>, <<"content", Str("B")>> >>)}

MemoryWriteBags ==
  {Arguments(<<>>),
   Arguments(<< <<"source", Str("agent")>>, <<"task_id", Str("1")>> >>),
   Arguments(<< <<"source", Str("agent")>>, <<"task_id", Str("1")>>,
                <<"payload",
                  Obj(<< <<"text", Str("hello")>>, <<"tag", Str("note")>>,
                         <<"timestamp", Str("2024-01-01T00:00:00Z")>> >>)>> >>)}

RagQueryBags ==
  {Arguments(<< <<"query", Str("q")>> >>),
   Arguments(<< <<"collection_name", Str("docs")>> >>),
   Arguments(<< <<"collection_name", Str("docs")>>, <<"query", Str("q")>> >>),
   Arguments(<< <<"collection_name", Str("docs")>>, <<"query", Str("q")>>,
                <<"limit", Num(5)>>, <<"embedding_model", Str("minilm")>>,
                <<"timeout", Num(30)>> >>)}

UploadDocumentsBags ==
  {NoArguments,
   Arguments(<< <<"collection_name", Str("docs")>> >>),
   Arguments(<< <<"collection_name", Str("docs")>>,
                <<"texts", Arr(<<Str("a"), Str("b")>>)>> >>),
   Arguments(<< <<"collection_name", Str("docs")>>,
                <<"texts", Arr(<<Str("a"), Str("b")>>)>>,
                <<"metadata", Arr(<<Obj(<< <<"page", Num(1)>> >>),
                                    Obj(<< <<"page", Num(2)>> >>)>>)>>,
                <<"source", Str("wiki")>>,
                <<"embedding_model", Str("minilm")>> >>)}

\* The <<tool name, argument bag>> pairs of the call-tool requests.
ToolCalls ==
  ({"create_note"} \X CreateNoteBags)
    \cup ({"list_tools"} \X {NoArguments})
    \cup ({"memory_write"} \X MemoryWriteBags)
    \cup ({"rag_query"} \X RagQueryBags)
    \cup ({"upload_documents"} \X UploadDocumentsBags)
    \cup (UnknownNames
            \X {NoArguments,
                Arguments(<< <<"collection_name", Str("docs")>>,
                             <<"query", Str("q")>> >>)})

\* The status lines the upstream can answer with.
UpstreamResponses ==
  {[status |-> 200, statusText |-> "OK"],
   [status |-> 404, statusText |-> "Not Found"],
   [status |-> 500, statusText |-> "Internal Server Error"]}

\* The bodies the upstream can send: a JSON document, or something else.
UpstreamBodies == {"{\"hits\":[\"a\"]}", "<html>oops</html>"}

(***************************************************************************)
(* State                                                                   *)
(***************************************************************************)
VARIABLES
  tasks,     \* the task store: the ordered own properties of `tasks`
  inflight   \* the bag of handler invocations received and not yet answered

vars == <<tasks, inflight>>

\* The invocation a request starts, run up to its first return, throw or
\* await.
Started(kind, uri, name, args, out) ==
  [st |-> out.st, kind |-> kind, uri |-> uri, name |-> name, args |-> args,
   upstream |-> <<>>, result |-> out.result, error |-> out.error,
   posts |-> out.posts, logs |-> out.logs]

\* A suspended invocation resumed by `event`, run up to its next await or end.
Resumed(inv, event, out) ==
  [inv EXCEPT !.st = out.st, !.upstream = @ \o <<event>>,
              !.result = out.result, !.error = out.error]

Invocations == BagToSet(inflight)
Without(inv) == inflight (-) SetToBag({inv})
Accepting == BagCardinality(inflight) < MaxInFlight

Init ==
  /\ tasks = InitialTasks
  /\ inflight = EmptyBag

ListResourcesRequest ==
  /\ Accepting
  /\ inflight' = inflight (+) SetToBag({
       Started("list-resources", "", "", NoArguments,
               Returns(ListResources(tasks), <<>>))})
  /\ UNCHANGED tasks

ReadResourceRequest(uri) ==
  /\ Accepting
  /\ inflight' = inflight (+) SetToBag({
       Started("read-resource", uri, "", NoArguments,
               ReadResource(tasks, uri))})
  /\ UNCHANGED tasks

ListToolsRequest ==
  /\ Accepting
  /\ inflight' = inflight (+) SetToBag({
       Started("list-tools", "", "", NoArguments, Returns(ListTools, <<>>))})
  /\ UNCHANGED tasks

CallToolRequest(name, args) ==
  LET out == CallTool(name, args)
  IN /\ Accepting
     /\ inflight' = inflight (+) SetToBag({
          Started("call-tool", "", name, args, out)})
     /\ tasks' = IF Route(name) = "create_note" /\ out.result # <<>>
                 THEN SaveNote(tasks, String(Arg(args, "title")),
                               String(Arg(args, "content")))
                 ELSE tasks

\* The upstream answers the POST of invocation inv with a status line.
FetchResolves(inv, response) ==
  /\ inv.st = "fetch"
  /\ inflight' = Without(inv) (+) SetToBag({
       Resumed(inv, [type |-> "response", response |-> response],
               AfterFetch(inv.name,
                          AwaitedResponse(Without(inv), response)))})
  /\ UNCHANGED tasks

\* The POST of invocation inv fails in transport (refused, DNS, reset).
FetchRejects(inv) ==
  /\ inv.st = "fetch"
  /\ inflight' = Without(inv) (+) SetToBag({
       Resumed(inv, [type |-> "rejected", reason |-> "fetch failed"],
               AfterRejection(TypeError("fetch failed")))})
  /\ UNCHANGED tasks

\* The body of the response arrives and response.json() settles.
JsonSettles(inv, text) ==
  /\ inv.st = "json"
  /\ inflight' = Without(inv) (+) SetToBag({
       Resumed(inv, [type |-> "body", text |-> text], AfterJson(text))})
  /\ UNCHANGED tasks

\* A settled invocation is answered (its result or its error is sent to the
\* caller) and leaves the process.
Respond(inv) ==
  /\ inv.st = "done"
  /\ inflight' = Without(inv)
  /\ UNCHANGED tasks

Next ==
  \/ ListResourcesRequest
  \/ \E uri \in ReadUris : ReadResourceRequest(uri)
  \/ ListToolsRequest
  \/ \E call \in ToolCalls : CallToolRequest(call[1], call[2])
  \/ \E inv \in Invocations, response \in UpstreamResponses :
       FetchResolves(inv, response)
  \/ \E inv \in Invocations : FetchRejects(inv)
  \/ \E inv \in Invocations, text \in UpstreamBodies : JsonSettles(inv, text)
  \/ \E inv \in Invocations : Respond(inv)

Spec == Init /\ [][Next]_vars

(***************************************************************************)
(* Vocabulary of the properties                                            *)
(***************************************************************************)
Settled(inv) == inv.st = "done"
Suspended(inv) == inv.st \in {"fetch", "json"}
ToolCall(inv, name) == inv.kind = "call-tool" /\ inv.name = name
Delegating(inv) ==
  inv.kind = "call-tool" /\ inv.name \in {"rag_query", "upload_documents"}
Supplied(args, k) == args.given /\ k \in OwnKeys(args.props)

EndsWith(s, suffix) ==
  Len(s) >= Len(suffix)
    /\ SubSeq(s, Len(s) - Len(suffix) + 1, Len(s)) = suffix

\* The error kinds of the specification, read off the thrown error.
ErrorKind(e) ==
  CASE e.message = "Unknown tool" -> "UnknownTool"
    [] e.message = "Title and content are required" -> "InvalidArguments"
    [] e.message
         = "Failed to process memory_write: Source, task_id, and payload are required"
         -> "InvalidArguments"
    [] StartsWith(e.message, "RAG query failed: ") -> "UpstreamFailure"
    [] StartsWith(e.message, "Document upload failed: ") -> "UpstreamFailure"
    [] e.message = "fetch failed" -> "UpstreamFailure"
    [] StartsWith(e.message, "Task ") /\ EndsWith(e.message, " not found")
         -> "NotFound"
    [] OTHER -> "Other"

FailsWith(inv, kind) ==
  /\ Settled(inv)
  /\ inv.result = <<>>
  /\ Len(inv.error) = 1
  /\ ErrorKind(inv.error[1]) = kind

ToolNamesOf(listing) == [i \in 1..Len(listing.tools) |-> listing.tools[i].name]
Range(seq) == {seq[i] : i \in 1..Len(seq)}

\* The names the tool listing declares.
DeclaredNames == Range(ToolNamesOf(ListTools))

\* C1: a create_note call that omits title or content (or has no argument
\* bag) fails with InvalidArguments, returns no content block and logs no
\* "Created note: ..." line; with both present as non-empty strings it
\* returns exactly the text block "Created note: <title>".
C1_CreateNoteValidated ==
  \A inv \in Invocations :
    ToolCall(inv, "create_note") =>
      IF ~Supplied(inv.args, "title") \/ ~Supplied(inv.args, "content")
      THEN /\ FailsWith(inv, "InvalidArguments")
           /\ \A i \in 1..Len(inv.logs) :
                ~StartsWith(inv.logs[i].text, "Created note: ")
      ELSE LET title == OwnProp(inv.args.props, "title")
               content == OwnProp(inv.args.props, "content")
           IN (title.t = "string" /\ title.v # ""
                 /\ content.t = "string" /\ content.v # "")
                => inv.result
                     = <<[content |->
                            <<TextBlock("Created note: " \o title.v)>>]>>

\* C2: a call-tool request whose name is none of the declared names fails
\* with UnknownTool and has no side effect: it issues no outbound POST,
\* emits no log line and leaves the task store as it was at startup.
C2_UnknownToolRejected ==
  \A inv \in Invocations :
    (inv.kind = "call-tool" /\ inv.name \notin DeclaredNames) =>
      /\ FailsWith(inv, "UnknownTool")
      /\ inv.posts = <<>>
      /\ inv.logs = <<>>
      /\ tasks = InitialTasks

C2_Witness ==
  \E inv \in Invocations :
    /\ ToolCall(inv, "rag_query_v2")
    /\ inv.args.given
    /\ Settled(inv)

\* The identifier of a URI of the form task:///<identifier>.
IdentifierOf(uri) == SubSeq(uri, Len("task:///") + 1, Len(uri))
WellFormedTaskUri(uri) ==
  /\ StartsWith(uri, "task:///")
  /\ FirstOf(uri, {"?", "#"}) > Len(uri)

\* C3: read-resource with a well-formed URI task:///<identifier> whose
\* identifier is no key of the task store fails with NotFound and returns
\* no contents.
C3_AbsentIdentifierNotFound ==
  \A inv \in Invocations :
    (/\ inv.kind = "read-resource"
     /\ WellFormedTaskUri(inv.uri)
     /\ IdentifierOf(inv.uri) \notin OwnKeys(tasks))
      => FailsWith(inv, "NotFound")

NonSuccess(response) == response.status < 200 \/ response.status > 299

OptionalArguments(name) ==
  IF name = "rag_query" THEN {"limit", "embedding_model", "timeout"}
  ELSE {"metadata", "source", "embedding_model"}

\* C5: the JSON body of the POST of a rag_query or upload_documents call has
\* a key for an optional argument only if the caller supplied it, and then
\* with the caller's value.
C5_OptionalArgumentsMirrored ==
  \A inv \in Invocations :
    (Delegating(inv) /\ inv.posts # <<>>) =>
      LET body == JSONParse(inv.posts[1].body)
      IN /\ body.ok
         /\ \A k \in OptionalArguments(inv.name) :
              k \in OwnKeys(body.val.v) =>
                /\ Supplied(inv.args, k)
                /\ OwnProp(body.val.v, k) = OwnProp(inv.args.props, k)

RequiredArguments(name) ==
  IF name = "rag_query" THEN {"collection_name", "query"}
  ELSE {"collection_name", "texts"}

\* C6: a rag_query or upload_documents call that misses a required argument
\* fails with InvalidArguments and issues no outbound POST.
C6_RequiredArgumentsValidated ==
  \A inv \in Invocations :
    (/\ Delegating(inv)
     /\ \E k \in RequiredArguments(inv.name) : ~Supplied(inv.args, k))
      => /\ FailsWith(inv, "InvalidArguments")
         /\ inv.posts = <<>>

\* C7: the names the list-tools request returns, the names the list_tools
\* tool returns and the names call-tool does not reject as UnknownTool are
\* the same five names, and the two listings give them in the same order.
C7_AdvertisedIsDispatchable ==
  \A a \in Invocations :
    a.kind = "list-tools" =>
      LET advertised == ToolNamesOf(a.result[1])
      IN /\ Cardinality(Range(advertised)) = 5
         /\ Len(advertised) = 5
         /\ \A b \in Invocations :
              /\ ToolCall(b, "list_tools") =>
                   /\ Len(b.result) = 1
                   /\ JSONParse(b.result[1].content[1].text).val
                        = Arr([i \in 1..Len(advertised) |-> Str(advertised[i])])
              /\ b.kind = "call-tool" =>
                   (b.name \in Range(advertised)
                      <=> ~(Len(b.error) = 1
                              /\ ErrorKind(b.error[1]) = "UnknownTool"))

C7_Witness ==
  \E a, b \in Invocations :
    /\ a.kind = "list-tools" /\ Settled(a)
    /\ ToolCall(b, "list_tools") /\ Settled(b)

C9_ResourceRoundTrip ==
  \A inv \in Invocations :
    inv.kind = "read-resource" =>
      \A n \in 1..Len(tasks) :
        LET id == tasks[n][1]
            issued == ListResources(tasks).resources[n].uri
        IN inv.uri = issued =>
             /\ Settled(inv)
             /\ inv.error = <<>>
             /\ Len(inv.result) = 1
             /\ Len(inv.result[1].contents) = 1
             /\ inv.result[1].contents[1].uri = issued
             /\ inv.result[1].contents[1].text.t = "string"
             /\ LET decoded == JSONParse(inv.result[1].contents[1].text.v)
                IN /\ decoded.ok
                   /\ decoded.val = tasks[n][2]
                   /\ OwnProp(decoded.val.v, "id") = Str(id)
             /\ StripLeadingSlash(URLPathname(issued).pathname) = id

C9_Witness ==
  \E inv \in Invocations :
    /\ inv.kind = "read-resource"
    /\ inv.uri = "task:///2"
    /\ Settled(inv)
    /\ inv.result # <<>>

\* The outcome the code gives a call-tool request for its name, arguments
\* and upstream answers alone.
OwnOutcome(inv) ==
  LET first == CallTool(inv.name, inv.args)
      last == inv.upstream[Len(inv.upstream)]
  IN IF inv.upstream = <<>> THEN [k \in {"st", "result", "error"} |-> first[k]]
     ELSE IF last.type = "response" THEN AfterFetch(inv.name, last.response)
     ELSE IF last.type = "rejected" THEN AfterRejection(TypeError(last.reason))
     ELSE AfterJson(last.text)

====
